---- MODULE Spec2Model ----
(***************************************************************************)
(* Regulatory workflow engine of src/app.py: the workflow store, the       *)
(* creation of a workflow and the processing of one named step of it,      *)
(* as reached through the HTTP handlers create_workflow and process_step.  *)
(*                                                                         *)
(* Conventions.  A Python Optional is a sequence of length at most one     *)
(* (None is << >>, a present value x is <<x>>).  A Python string built     *)
(* by an f-string is the sequence of its pieces, so that "the message      *)
(* contains the client id" is membership of the id among the pieces.       *)
(* datetime.now() is a discrete clock `now`: a request that changes the     *)
(* store reads it at its start and leaves it one tick later (a step reads  *)
(* the later value at its end); requests follow each other without delay.  *)
(* uuid4() is an identifier not in use.                                    *)
(*                                                                         *)
(* Specifications.  Spec takes the requests one after the other.           *)
(* ConcurrentSpec lets the server's threads interleave inside              *)
(* process_workflow_step, and TwoWorkflowsSpec does so from a store that   *)
(* holds two workflows.  LifeSpec follows one workflow, from its           *)
(* creation, through as many step requests as it has steps.  ClassifySpec, *)
(* AggregateSpec, DocumentChecksSpec and DataQualitySpec apply one pure    *)
(* computation (the classifier; the aggregation that ends                  *)
(* trigger_regulatory_classification; process_document_checks;             *)
(* process_dq_checks) to arguments `args` drawn in their initial states    *)
(* and keep what it returned in `returned`.                                *)
(***************************************************************************)
EXTENDS Integers, Sequences, FiniteSets, TLC

VARIABLES workflow_db, clients_db, regulatory_db, now, last,
          threads, args, returned

vars == <<workflow_db, clients_db, regulatory_db, now, last, threads, args, returned>>

\* ---------------------------------------------------------------- bounds

\* Last value of the clock.  A request that changes the store takes one tick
\* of it, so this is also the number of such requests in one run.
MaxTime == 4
\* Most documents the completeness service reports unavailable in one step.
MaxMissing == 1

\* ------------------------------------------------------------- optionals

None == << >>

Some(x) == <<x>>

IsNone(o) == o = << >>

\* The empty dict {}.
EmptyDict == [k \in {} |-> 0]

\* ----------------------------------------------------------- data models

\* class WorkflowStatus(Enum): member name -> value.
WorkflowStatus ==
    [ NOT_STARTED            |-> "not_started",
      IN_PROGRESS            |-> "in_progress",
      COMPLETED              |-> "completed",
      FAILED                 |-> "failed",
      MANUAL_REVIEW_REQUIRED |-> "manual_review_required",
      APPROVED               |-> "approved",
      REJECTED               |-> "rejected" ]

\* Attribute lookup on the enum class: WorkflowStatus.<name> exists.
HasMember(enum, name) == name \in DOMAIN enum

\* The keys of workflow_steps, in the order create_regulatory_workflow gives.
StepNames == << "client_import", "regulation_classification",
                "document_validation", "manual_review", "client_communication" >>

StepNameSet == { StepNames[i] : i \in 1..Len(StepNames) }

StepTitle ==
    [ client_import             |-> "Client Data Import",
      regulation_classification |-> "Regulation Classification",
      document_validation       |-> "Document Validation",
      manual_review             |-> "Manual Review",
      client_communication      |-> "Client Communication" ]

\* WorkflowStep(step_name=..., status=NOT_STARTED, started_at=None,
\*              completed_at=None, details={})   (error_message defaults to None)
NewWorkflowStep(title) ==
    [ step_name     |-> title,
      status        |-> WorkflowStatus.NOT_STARTED,
      started_at    |-> None,
      completed_at  |-> None,
      details       |-> EmptyDict,
      error_message |-> None ]

\* ------------------------------------------------------ rules and samples

Doc(type, required) == [document_type |-> type, required |-> required]

\* REGULATION_RULES.  A conditions dict holds only the keys the rule gives.
REGULATION_RULES ==
    << [ regulation_name |-> "MiFID II",
         conditions |-> [ jurisdiction  |-> {"EU", "UK"},
                          products      |-> {"derivatives", "equities", "bonds"},
                          entity_types  |-> {"investment_advisor", "hedge_fund"},
                          aum_threshold |-> 5000000 ],
         required_documents |-> << Doc("risk_disclosure", TRUE),
                                   Doc("entity_registration", TRUE),
                                   Doc("financial_statements", TRUE) >> ],
       [ regulation_name |-> "AIFMD",
         conditions |-> [ jurisdiction  |-> {"EU"},
                          products      |-> {"alternative_investments", "hedge_funds"},
                          entity_types  |-> {"hedge_fund", "investment_advisor"},
                          aum_threshold |-> 100000000 ],
         required_documents |-> << Doc("aifmd_registration", TRUE),
                                   Doc("fund_prospectus", TRUE),
                                   Doc("risk_management", TRUE) >> ],
       [ regulation_name |-> "EMIR",
         conditions |-> [ jurisdiction  |-> {"EU", "UK"},
                          products      |-> {"derivatives", "swaps"},
                          entity_types  |-> {"hedge_fund", "investment_advisor", "bank"},
                          aum_threshold |-> 0 ],
         required_documents |-> << Doc("emir_registration", TRUE),
                                   Doc("derivative_policy", TRUE),
                                   Doc("risk_mitigation", TRUE) >> ],
       [ regulation_name |-> "FATCA",
         conditions |-> [ jurisdiction  |-> {"US", "GLOBAL"},
                          entity_types  |-> {"hedge_fund", "investment_advisor",
                                             "pension_fund", "insurance_company"},
                          aum_threshold |-> 0 ],
         required_documents |-> << Doc("fatca_forms", TRUE),
                                   Doc("us_person_identification", TRUE),
                                   Doc("irs_registration", FALSE) >> ],
       [ regulation_name |-> "AML/KYC",
         conditions |-> [ jurisdiction  |-> {"GLOBAL"},
                          entity_types  |-> {"hedge_fund", "investment_advisor", "bank",
                                             "corporate", "pension_fund",
                                             "insurance_company"},
                          aum_threshold |-> 0 ],
         required_documents |-> << Doc("aml_policy", TRUE),
                                   Doc("kyc_documentation", TRUE),
                                   Doc("beneficial_ownership", TRUE),
                                   Doc("sanctions_screening", TRUE) >> ] >>

\* SAMPLE_CLIENTS (System X).
SAMPLE_CLIENTS ==
    [ CLIENT_001 |-> [ entity_name    |-> "European Alpha Fund",
                       entity_type    |-> "hedge_fund",
                       jurisdiction   |-> "EU",
                       aum_usd        |-> 250000000,
                       business_type  |-> "Alternative Investment Management",
                       contact_person |-> "Maria Schmidt",
                       email          |-> "maria.schmidt@europealpha.com" ],
      CLIENT_002 |-> [ entity_name    |-> "Global Investment Advisors Ltd",
                       entity_type    |-> "investment_advisor",
                       jurisdiction   |-> "UK",
                       aum_usd        |-> 75000000,
                       business_type  |-> "Investment Advisory Services",
                       contact_person |-> "James Wilson",
                       email          |-> "j.wilson@globalinvest.co.uk" ],
      CLIENT_003 |-> [ entity_name    |-> "US Pension Fund",
                       entity_type    |-> "pension_fund",
                       jurisdiction   |-> "US",
                       aum_usd        |-> 500000000,
                       business_type  |-> "Pension Fund Management",
                       contact_person |-> "Sarah Johnson",
                       email          |-> "sarah.j@uspension.org" ] ]

Product(name, type, risk) ==
    [product_name |-> name, product_type |-> type, risk_level |-> risk]

\* SAMPLE_PRODUCTS (System Y).
SAMPLE_PRODUCTS ==
    [ CLIENT_001 |-> << Product("Equity Derivatives", "derivatives", "high"),
                        Product("European Equities", "equities", "medium"),
                        Product("Alternative Investments", "alternative_investments", "high") >>,
      CLIENT_002 |-> << Product("Corporate Bonds", "bonds", "low"),
                        Product("Equity Trading", "equities", "medium") >>,
      CLIENT_003 |-> << Product("Government Bonds", "bonds", "low"),
                        Product("Money Market", "money_market", "low") >> ]

\* ------------------------------------------------------ import (System X/Y)

\* The ClientData import_client_data returns for an id of SAMPLE_CLIENTS, at
\* clock value t.  (approved_date is a random past date and is left out of
\* ProductApproval.)
ImportedClientData(client_id, t) ==
    LET client_info == SAMPLE_CLIENTS[client_id]
        products_info == IF client_id \in DOMAIN SAMPLE_PRODUCTS
                         THEN SAMPLE_PRODUCTS[client_id] ELSE << >>
    IN [ client_id         |-> client_id,
         entity_name       |-> client_info.entity_name,
         entity_type       |-> client_info.entity_type,
         jurisdiction      |-> client_info.jurisdiction,
         aum_usd           |-> client_info.aum_usd,
         business_type     |-> client_info.business_type,
         contact_person    |-> client_info.contact_person,
         email             |-> client_info.email,
         approved_products |-> products_info,
         created_at        |-> t ]

\* Mutant of import_client_data: the ValueError does not name the client id.
import_client_data_AnonymousError(client_id, t) ==
    IF client_id \notin DOMAIN SAMPLE_CLIENTS
    THEN [ raised |-> TRUE, error |-> << "Client not found in System X" >> ]
    ELSE [ raised |-> FALSE, value |-> ImportedClientData(client_id, t) ]

\* import_client_data(client_id) at clock value t: the ClientData built, or the
\* ValueError raised for an id that SAMPLE_CLIENTS does not hold.
import_client_data(client_id, t) ==
    IF client_id \notin DOMAIN SAMPLE_CLIENTS
    THEN [ raised |-> TRUE,
           error  |-> << "Client ", client_id, " not found in System X" >> ]
    ELSE [ raised |-> FALSE, value |-> ImportedClientData(client_id, t) ]

\* ------------------------------------------------------------ classifier

\* Mutant of RuleApplies: the AUM test asks for more than the threshold.
RuleApplies_AumAboveThreshold(rule, client_data) ==
    LET conditions == rule.conditions
        client_product_types ==
            { client_data.approved_products[i].product_type :
                  i \in 1..Len(client_data.approved_products) }
    IN /\ "jurisdiction" \in DOMAIN conditions
              => ( client_data.jurisdiction \in conditions.jurisdiction
                   \/ "GLOBAL" \in conditions.jurisdiction )
       /\ "entity_types" \in DOMAIN conditions
              => client_data.entity_type \in conditions.entity_types
       /\ "aum_threshold" \in DOMAIN conditions
              => client_data.aum_usd > conditions.aum_threshold
       /\ "products" \in DOMAIN conditions
              => \E product_type \in conditions.products :
                     product_type \in client_product_types

\* The body of the loop of classify_applicable_regulations for one rule.
RuleApplies(rule, client_data) ==
    LET conditions == rule.conditions
        client_product_types ==
            { client_data.approved_products[i].product_type :
                  i \in 1..Len(client_data.approved_products) }
        jurisdiction_ok ==
            IF "jurisdiction" \in DOMAIN conditions
            THEN ~ ( client_data.jurisdiction \notin conditions.jurisdiction
                     /\ "GLOBAL" \notin conditions.jurisdiction )
            ELSE TRUE
        entity_ok ==
            IF "entity_types" \in DOMAIN conditions
            THEN client_data.entity_type \in conditions.entity_types
            ELSE TRUE
        aum_ok ==
            IF "aum_threshold" \in DOMAIN conditions
            THEN ~ (client_data.aum_usd < conditions.aum_threshold)
            ELSE TRUE
        products_ok ==
            IF "products" \in DOMAIN conditions
            THEN \E product_type \in conditions.products :
                     product_type \in client_product_types
            ELSE TRUE
    IN jurisdiction_ok /\ entity_ok /\ aum_ok /\ products_ok

RECURSIVE classify_Prepends(_, _)
\* Mutant of classify: an applicable regulation is put at the front of the list.
classify_Prepends(rules, client_data) ==
    IF rules = << >> THEN << >>
    ELSE classify_Prepends(Tail(rules), client_data)
         \o ( IF RuleApplies(Head(rules), client_data)
              THEN << Head(rules).regulation_name >> ELSE << >> )

RECURSIVE classify(_, _)
\* The names of the rules of `rules` that apply, in the order of `rules`.
classify(rules, client_data) ==
    IF rules = << >> THEN << >>
    ELSE ( IF RuleApplies(Head(rules), client_data)
           THEN << Head(rules).regulation_name >> ELSE << >> )
         \o classify(Tail(rules), client_data)

classify_applicable_regulations(client_data) ==
    classify(REGULATION_RULES, client_data)

\* ------------------------------------------------- document completeness

\* next((r for r in REGULATION_RULES if r.regulation_name == name), None)
FindRule(regulation_name) ==
    LET hits == SelectSeq(REGULATION_RULES,
                          LAMBDA r : r.regulation_name = regulation_name)
    IN IF hits = << >> THEN None ELSE Some(Head(hits))

\* check_document_completeness(client_id, regulation_name).  `unavailable` is
\* the set of <<regulation, document type>> for which random() > 0.2 is false.
\* document_results[doc_req.document_type] = {...}; is_available is the draw
\* random.random() > 0.2 for the document.
DocumentResult(doc_req, is_available) ==
    [ required  |-> doc_req.required,
      available |-> is_available,
      status    |-> IF is_available THEN "complete"
                    ELSE IF doc_req.required THEN "missing"
                    ELSE "optional_missing" ]

\* The loop of check_document_completeness over the required documents `docs`
\* of the rule; `unavailable` holds the <<regulation, document type>> drawn
\* unavailable.
CompletenessOf(regulation_name, docs, unavailable, t) ==
    [ regulation       |-> regulation_name,
      overall_complete |->
          \A i \in 1..Len(docs) :
              ~ ( docs[i].required
                  /\ << regulation_name, docs[i].document_type >> \in unavailable ),
      documents        |->
          [ ty \in { docs[i].document_type : i \in 1..Len(docs) } |->
              DocumentResult(
                  docs[CHOOSE i \in 1..Len(docs) : docs[i].document_type = ty],
                  << regulation_name, ty >> \notin unavailable) ],
      checked_at       |-> t ]

\* The two returns of check_document_completeness, for the rule found.
CompletenessResult(rule, regulation_name, unavailable, t) ==
    IF IsNone(rule)
    THEN [ error |-> << "No rule found for ", regulation_name >> ]
    ELSE CompletenessOf(regulation_name, rule[1].required_documents, unavailable, t)

check_document_completeness(client_id, regulation_name, unavailable, t) ==
    CompletenessResult(FindRule(regulation_name), regulation_name, unavailable, t)

\* result.get("overall_complete", False)
GetOverallComplete(result) ==
    IF "overall_complete" \in DOMAIN result THEN result.overall_complete ELSE FALSE

\* --------------------------------------------------------- create workflow

\* uuid4(): an identifier that is not in use in the workflow store.
UsedIds(db) ==
    DOMAIN db \cup
    UNION { { db[w].communications[i].comm_id : i \in 1..Len(db[w].communications) } :
            w \in DOMAIN db }

uuid4(db) == CHOOSE n \in 1..(Cardinality(UsedIds(db)) + 1) : n \notin UsedIds(db)

\* The RegulatoryWorkflow that create_regulatory_workflow builds.
NewWorkflow(workflow_id, client_id, t) ==
    [ workflow_id            |-> workflow_id,
      client_id              |-> client_id,
      client_data            |-> None,
      applicable_regulations |-> << >>,
      workflow_steps         |-> [ s \in StepNameSet |-> NewWorkflowStep(StepTitle[s]) ],
      classification_results |-> None,
      communications         |-> << >>,
      overall_status         |-> WorkflowStatus.NOT_STARTED,
      created_at             |-> t,
      completed_at           |-> None ]

\* Mutant of create_regulatory_workflow: the identifier is the client's, so
\* a client's second workflow takes the place of its first.
create_regulatory_workflow_KeyedByClient(db, client_id, t) ==
    LET same == { w \in DOMAIN db : db[w].client_id = client_id }
        workflow_id == IF same = {} THEN uuid4(db) ELSE CHOOSE w \in same : TRUE
    IN [ w \in DOMAIN db \cup {workflow_id} |->
           IF w = workflow_id THEN NewWorkflow(workflow_id, client_id, t) ELSE db[w] ]

\* create_regulatory_workflow(client_id): the store afterwards.
create_regulatory_workflow(db, client_id, t) ==
    LET workflow_id == uuid4(db)
    IN [ w \in DOMAIN db \cup {workflow_id} |->
           IF w = workflow_id THEN NewWorkflow(workflow_id, client_id, t) ELSE db[w] ]

\* ------------------------------------------------- process_workflow_step

\* What the body of the try block did: it fell through to "Complete the step"
\* (kind "fallthrough"), returned True from inside (kind "return"), or raised
\* (kind "raise", with str(e)); `workflow` carries the writes made until then.
Fallthrough(wf) == [kind |-> "fallthrough", workflow |-> wf, error |-> << >>]

Return(wf) == [kind |-> "return", workflow |-> wf, error |-> << >>]

Raise(wf, message) == [kind |-> "raise", workflow |-> wf, error |-> message]

\* str(e) of the AttributeError of reading attribute `name` of None.
NoneAttributeError(name) ==
    << "'NoneType' object has no attribute '", name, "'" >>

\* str(e) of the AttributeError of reading a member the enum does not have.
EnumAttributeError(name) == << name >>

\* step.started_at = datetime.now(); step.status = IN_PROGRESS
BeginStep(wf, step_name, t0) ==
    [ wf EXCEPT !.workflow_steps[step_name].started_at = Some(t0),
                !.workflow_steps[step_name].status = WorkflowStatus.IN_PROGRESS ]

\* if step_name == "client_import"
ClientImportBody(wf, t) ==
    LET r == import_client_data(wf.client_id, t) IN
    IF r.raised THEN Raise(wf, r.error)
    ELSE Fallthrough(
           [ wf EXCEPT !.client_data = Some(r.value),
                       !.workflow_steps["client_import"].details =
                           [ system_x_data  |-> "imported",
                             system_y_data  |-> "imported",
                             products_count |-> Len(r.value.approved_products) ] ])

\* Mutant of RegulationClassificationBody: the regulations classified are
\* added behind the ones the workflow holds.
RegulationClassificationBody_Appends(wf) ==
    IF IsNone(wf.client_data)
    THEN Raise(wf, NoneAttributeError("approved_products"))
    ELSE LET regs == classify_applicable_regulations(wf.client_data[1]) IN
         Fallthrough(
           [ wf EXCEPT !.applicable_regulations = @ \o regs,
                       !.workflow_steps["regulation_classification"].details =
                           [ total_regulations_checked |-> Len(REGULATION_RULES),
                             applicable_regulations    |-> regs,
                             classification_basis      |-> "automated_rules_engine" ] ])

\* elif step_name == "regulation_classification"
RegulationClassificationBody(wf) ==
    IF IsNone(wf.client_data)
    THEN Raise(wf, NoneAttributeError("approved_products"))
    ELSE LET regs == classify_applicable_regulations(wf.client_data[1]) IN
         Fallthrough(
           [ wf EXCEPT !.applicable_regulations = regs,
                       !.workflow_steps["regulation_classification"].details =
                           [ total_regulations_checked |-> Len(REGULATION_RULES),
                             applicable_regulations    |-> regs,
                             classification_basis      |-> "automated_rules_engine" ] ])

\* The two statements under "if not overall_complete": the first assignment
\* is made, the second one reads WorkflowStatus.PENDING.
RequireManualReview(wf) ==
    LET marked == [ wf EXCEPT !.workflow_steps["document_validation"].status =
                                  WorkflowStatus.MANUAL_REVIEW_REQUIRED ]
    IN IF HasMember(WorkflowStatus, "PENDING")
       THEN Fallthrough([ marked EXCEPT !.workflow_steps["manual_review"].status =
                                            WorkflowStatus["PENDING"] ])
       ELSE Raise(marked, EnumAttributeError("PENDING"))

\* doc_results of the document_validation branch, once its loop has ended.
DocResults(wf, unavailable, t) ==
    [ regulation \in { wf.applicable_regulations[i] :
                          i \in 1..Len(wf.applicable_regulations) } |->
        check_document_completeness(wf.client_id, regulation, unavailable, t) ]

\* overall_complete of the document_validation branch, once its loop has ended.
OverallComplete(regs, doc_results) ==
    \A i \in 1..Len(regs) : GetOverallComplete(doc_results[regs[i]])

\* step.details = {...} of the document_validation branch.
DocumentValidationDetails(regs, doc_results) ==
    [ regulations_checked |-> Len(regs),
      document_results    |-> doc_results,
      overall_complete    |-> OverallComplete(regs, doc_results) ]

\* The document_validation branch from step.details = ... on.
RecordDocumentResults(wf, details) ==
    IF ~ details.overall_complete
    THEN RequireManualReview(
           [ wf EXCEPT !.workflow_steps["document_validation"].details = details ])
    ELSE Fallthrough(
           [ wf EXCEPT !.workflow_steps["document_validation"].details = details ])

\* elif step_name == "document_validation"
DocumentValidationBody(wf, unavailable, t) ==
    RecordDocumentResults(
        wf, DocumentValidationDetails(wf.applicable_regulations,
                                      DocResults(wf, unavailable, t)))

\* step.details = {...} of the manual_review branch.
ReviewDetails(approved, minutes) ==
    [ reviewer        |-> "Anna Vance",
      review_decision |-> IF approved THEN "approved" ELSE "rejected",
      review_comments |-> IF approved THEN "All regulatory requirements satisfied"
                          ELSE "Missing critical documentation",
      review_duration_minutes |-> minutes ]

\* Mutant of ManualReviewBody: a rejection marks the step and leaves the
\* workflow's overall status alone.
ManualReviewBody_KeepsWorkflowOpen(wf, approved, minutes) ==
    LET detailed == [ wf EXCEPT !.workflow_steps["manual_review"].details =
                          ReviewDetails(approved, minutes) ]
    IN IF approved
       THEN Fallthrough([ detailed EXCEPT !.workflow_steps["manual_review"].status =
                                              WorkflowStatus.APPROVED ])
       ELSE Return([ detailed EXCEPT !.workflow_steps["manual_review"].status =
                                         WorkflowStatus.REJECTED ])

\* elif step_name == "manual_review"; approved is random.random() > 0.1
ManualReviewBody(wf, approved, minutes) ==
    LET detailed == [ wf EXCEPT !.workflow_steps["manual_review"].details =
                          ReviewDetails(approved, minutes) ]
    IN IF approved
       THEN Fallthrough([ detailed EXCEPT !.workflow_steps["manual_review"].status =
                                              WorkflowStatus.APPROVED ])
       ELSE Return([ detailed EXCEPT !.workflow_steps["manual_review"].status =
                                         WorkflowStatus.REJECTED,
                                     !.overall_status = WorkflowStatus.REJECTED ])

\* Mutant of Communication: the communication carries the client id of the
\* imported profile's entity, not the workflow's.
Communication_NamesEntity(wf, entity_name, contact_person, comm_id, t) ==
    [ comm_id    |-> comm_id,
      client_id  |-> entity_name,
      comm_type  |-> "market_regulation_notification",
      subject    |-> << "Regulatory Due Diligence Complete - ", entity_name >>,
      content    |-> << "Dear ", contact_person, entity_name >>
                     \o wf.applicable_regulations,
      status     |-> WorkflowStatus.COMPLETED,
      sent_at    |-> Some(t),
      created_at |-> t ]

\* ClientCommunication(comm_id=..., ...) for the names `entity_name` and
\* `contact_person`; regulation_list is ", ".join(applicable_regulations).
Communication(wf, entity_name, contact_person, comm_id, t) ==
    [ comm_id    |-> comm_id,
      client_id  |-> wf.client_id,
      comm_type  |-> "market_regulation_notification",
      subject    |-> << "Regulatory Due Diligence Complete - ", entity_name >>,
      content    |-> << "Dear ", contact_person, entity_name >>
                     \o wf.applicable_regulations,
      status     |-> WorkflowStatus.COMPLETED,
      sent_at    |-> Some(t),
      created_at |-> t ]

\* Mutant of SendCommunication: the list of communications is replaced by the
\* new communication alone.
SendCommunication_Replaces(wf, comm_id, t) ==
    LET client_data == wf.client_data[1] IN
    Fallthrough(
      [ wf EXCEPT !.communications =
                      << Communication(wf, client_data.entity_name,
                                       client_data.contact_person, comm_id, t) >>,
                  !.workflow_steps["client_communication"].details =
                      [ communication_type   |-> "market_regulation_notification",
                        sent_to              |-> client_data.email,
                        regulations_notified |-> wf.applicable_regulations ] ])

\* The client_communication branch for a profile that is present.
SendCommunication(wf, comm_id, t) ==
    LET client_data == wf.client_data[1] IN
    Fallthrough(
      [ wf EXCEPT !.communications =
                      Append(@, Communication(wf, client_data.entity_name,
                                              client_data.contact_person, comm_id, t)),
                  !.workflow_steps["client_communication"].details =
                      [ communication_type   |-> "market_regulation_notification",
                        sent_to              |-> client_data.email,
                        regulations_notified |-> wf.applicable_regulations ] ])

\* Mutant of ClientCommunicationBody: the communication is built without the
\* profile and appended, and the profile is first read for sent_to.
ClientCommunicationBody_AppendsBeforeFailing(wf, comm_id, t) ==
    IF IsNone(wf.client_data)
    THEN Raise([ wf EXCEPT !.communications =
                               Append(@, Communication(wf, "", "", comm_id, t)) ],
               NoneAttributeError("email"))
    ELSE SendCommunication(wf, comm_id, t)

\* elif step_name == "client_communication"
ClientCommunicationBody(wf, comm_id, t) ==
    IF IsNone(wf.client_data)
    THEN Raise(wf, NoneAttributeError("entity_name"))
    ELSE SendCommunication(wf, comm_id, t)

\* The if/elif chain of the try block.  inp holds what the step draws from
\* outside: the unavailable documents, the reviewer's decision and duration.
StepBody(wf, step_name, t0, t1, inp) ==
    CASE step_name = "client_import" -> ClientImportBody(wf, t0)
      [] step_name = "regulation_classification" -> RegulationClassificationBody(wf)
      [] step_name = "document_validation" ->
             DocumentValidationBody(wf, inp.unavailable, t1)
      [] step_name = "manual_review" ->
             ManualReviewBody(wf, inp.approved, inp.minutes)
      [] step_name = "client_communication" ->
             ClientCommunicationBody(wf, inp.comm_id, t0)
      [] OTHER -> Fallthrough(wf)

\* Mutant of CompleteStep: the workflow is completed with its last step.
CompleteStep_CompletesWorkflow(wf, step_name, t1) ==
    LET status == wf.workflow_steps[step_name].status
        done == [ wf EXCEPT !.workflow_steps[step_name].status =
                                IF status \notin { WorkflowStatus.MANUAL_REVIEW_REQUIRED,
                                                   WorkflowStatus.REJECTED }
                                THEN WorkflowStatus.COMPLETED ELSE status,
                            !.workflow_steps[step_name].completed_at = Some(t1) ]
    IN IF \A s \in DOMAIN done.workflow_steps :
              done.workflow_steps[s].status = WorkflowStatus.COMPLETED
       THEN [ done EXCEPT !.overall_status = WorkflowStatus.COMPLETED ]
       ELSE done

\* "Complete the step"
CompleteStep(wf, step_name, t1) ==
    LET status == wf.workflow_steps[step_name].status IN
    [ wf EXCEPT !.workflow_steps[step_name].status =
                    IF status \notin { WorkflowStatus.MANUAL_REVIEW_REQUIRED,
                                       WorkflowStatus.REJECTED }
                    THEN WorkflowStatus.COMPLETED ELSE status,
                !.workflow_steps[step_name].completed_at = Some(t1) ]

\* Mutant of ExceptHandler: a failed step fails the whole workflow.
ExceptHandler_FailsWorkflow(wf, step_name, message, t1) ==
    [ wf EXCEPT !.workflow_steps[step_name].status = WorkflowStatus.FAILED,
                !.workflow_steps[step_name].error_message = Some(message),
                !.workflow_steps[step_name].completed_at = Some(t1),
                !.overall_status = WorkflowStatus.FAILED ]

\* except Exception as e
ExceptHandler(wf, step_name, message, t1) ==
    [ wf EXCEPT !.workflow_steps[step_name].status = WorkflowStatus.FAILED,
                !.workflow_steps[step_name].error_message = Some(message),
                !.workflow_steps[step_name].completed_at = Some(t1) ]

\* The lookups made before the try block: "False" is the early return False,
\* "KeyError" the exception of workflow.workflow_steps[step_name], "run" neither.
Lookup(db, workflow_id, step_name) ==
    IF workflow_id \notin DOMAIN db THEN "False"
    ELSE IF step_name \notin DOMAIN db[workflow_id].workflow_steps THEN "KeyError"
    ELSE "run"

\* What follows the body of the try block: the except block after a raise,
\* nothing after the return inside, "Complete the step" otherwise.
EndStep(out, step_name, t1) ==
    CASE out.kind = "raise" -> ExceptHandler(out.workflow, step_name, out.error, t1)
      [] out.kind = "return" -> out.workflow
      [] OTHER -> CompleteStep(out.workflow, step_name, t1)

\* return False of the except block, return True otherwise.
StepResult(out) == IF out.kind = "raise" THEN "False" ELSE "True"

\* Mutant of Outcome: the step records are shared by the workflows of the
\* store, so the step as the run leaves it shows in every one of them.
Outcome_SharesSteps(db, workflow_id, step_name, out, t1) ==
    [ db     |-> [ w \in DOMAIN db |->
                     IF w = workflow_id THEN EndStep(out, step_name, t1)
                     ELSE [ db[w] EXCEPT !.workflow_steps[step_name] =
                              EndStep(out, step_name, t1).workflow_steps[step_name] ] ],
      result |-> StepResult(out) ]

\* The store and the result after the run of a step that left `out`.
Outcome(db, workflow_id, step_name, out, t1) ==
    [ db     |-> [ db EXCEPT ![workflow_id] = EndStep(out, step_name, t1) ],
      result |-> StepResult(out) ]

\* process_workflow_step from step.started_at = ... on, for a workflow and a
\* step that exist.
RunStep(db, workflow_id, step_name, t0, t1, inp) ==
    Outcome(db, workflow_id, step_name,
            StepBody(BeginStep(db[workflow_id], step_name, t0), step_name, t0, t1, inp),
            t1)

\* Mutant of process_workflow_step: a workflow id that is not in the store is
\* given an empty workflow there before False is returned.
process_workflow_step_CreatesMissing(db, workflow_id, step_name, t0, t1, inp) ==
    CASE Lookup(db, workflow_id, step_name) = "False" ->
             [ db     |-> [ w \in DOMAIN db \cup {workflow_id} |->
                              IF w = workflow_id THEN NewWorkflow(workflow_id, "", t0)
                              ELSE db[w] ],
               result |-> "False" ]
      [] Lookup(db, workflow_id, step_name) = "KeyError" ->
             [ db |-> db, result |-> "KeyError" ]
      [] OTHER -> RunStep(db, workflow_id, step_name, t0, t1, inp)

\* process_workflow_step(workflow_id, step_name), started at clock value t0 and
\* ended at t1: the store afterwards and the result ("True", "False", or
\* "KeyError" for the exception that leaves the function).
process_workflow_step(db, workflow_id, step_name, t0, t1, inp) ==
    IF Lookup(db, workflow_id, step_name) # "run"
    THEN [ db |-> db, result |-> Lookup(db, workflow_id, step_name) ]
    ELSE RunStep(db, workflow_id, step_name, t0, t1, inp)

\* ---------------------------------------------------------------- inputs

\* Client ids a caller posts: none, one System X knows, one it does not.
ClientIdInputs == { "", "CLIENT_003", "CLIENT_404" }

\* Step names a caller puts in the URL: the five steps and one that is none.
StepNameInputs == StepNameSet \cup { "unknown_step" }

\* random.randint(15, 45), its two ends.
ReviewDurationInputs == { 15, 45 }

RECURSIVE SubsetsUpTo(_, _)
\* The subsets of S with at most k elements.
SubsetsUpTo(S, k) ==
    IF k = 0 THEN { {} }
    ELSE LET P == SubsetsUpTo(S, k - 1)
         IN P \cup { p \cup {x} : p \in P, x \in S }

\* The <<regulation, document type>> pairs the completeness check draws for.
DocPairs(regs) ==
    UNION { LET rule == FindRule(regs[i]) IN
            IF IsNone(rule) THEN {}
            ELSE { << regs[i], rule[1].required_documents[j].document_type >> :
                       j \in 1..Len(rule[1].required_documents) } :
            i \in 1..Len(regs) }

\* What one run of the step draws from outside the engine.
StepInputs(db, workflow_id, step_name) ==
    CASE Lookup(db, workflow_id, step_name) # "run" ->
             { [ unavailable |-> {}, approved |-> TRUE, minutes |-> 15,
                 comm_id |-> uuid4(db) ] }
      [] step_name = "document_validation" ->
             { [ unavailable |-> u, approved |-> TRUE, minutes |-> 15,
                 comm_id |-> uuid4(db) ] :
                   u \in SubsetsUpTo(DocPairs(db[workflow_id].applicable_regulations),
                                     MaxMissing) }
      [] step_name = "manual_review" ->
             { [ unavailable |-> {}, approved |-> a, minutes |-> m,
                 comm_id |-> uuid4(db) ] :
                   a \in BOOLEAN, m \in ReviewDurationInputs }
      [] OTHER ->
             { [ unavailable |-> {}, approved |-> TRUE, minutes |-> 15,
                 comm_id |-> uuid4(db) ] }

\* --------------------------------------------------------------- threads

\* The threads of the development server (app.run serves each request in a
\* thread of its own); two are enough for two requests at the same time.
Threads == { "thread-1", "thread-2" }

\* A thread that is serving no request.
Idle == [ pc |-> "idle" ]

\* --------------------------------------------------------- HTTP handlers

\* The JSON process_step answers with, and its status code.
ProcessStepResponse(db, workflow_id, step_name, result) ==
    CASE result = "True" ->
             LET step == db[workflow_id].workflow_steps[step_name] IN
             [ code |-> 200,
               body |-> [ status        |-> "success",
                          step_name     |-> step_name,
                          step_status   |-> step.status,
                          step_details  |-> step.details,
                          started_at    |-> step.started_at,
                          completed_at  |-> step.completed_at,
                          error_message |-> step.error_message ] ]
      [] result = "False" ->
             [ code |-> 500, body |-> [ error |-> << "Failed to process step" >> ] ]
      [] OTHER ->
             [ code |-> 500, body |-> [ error |-> << "'", step_name, "'" >> ] ]

\* POST /api/regulatory/workflow/create with {"client_id": client_id}
create_workflow(client_id) ==
    /\ IF client_id = ""
       THEN /\ UNCHANGED << workflow_db, now >>
            /\ last' = [ op |-> "create_workflow", client_id |-> client_id,
                         code |-> 400,
                         body |-> [ error |-> << "client_id is required" >> ] ]
       ELSE /\ now < MaxTime
            /\ now' = now + 1
            /\ workflow_db' = create_regulatory_workflow(workflow_db, client_id, now)
            /\ last' = [ op |-> "create_workflow", client_id |-> client_id,
                         code |-> 200,
                         body |-> [ status      |-> "success",
                                    workflow_id |-> uuid4(workflow_db),
                                    client_id   |-> client_id,
                                    steps       |-> StepNames ] ]
    /\ UNCHANGED << clients_db, regulatory_db, threads, args, returned >>

\* The request and the answer it got, as `last` keeps them.
Exchange(workflow_id, step_name, result, response) ==
    [ op |-> "process_step", workflow_id |-> workflow_id, step_name |-> step_name,
      result |-> result, code |-> response.code, body |-> response.body ]

\* process_step once process_workflow_step has left the store and result r.
Answer(workflow_id, step_name, r) ==
    /\ workflow_db' = r.db
    /\ last' = Exchange(workflow_id, step_name, r.result,
                        ProcessStepResponse(r.db, workflow_id, step_name, r.result))

\* POST /api/regulatory/workflow/<workflow_id>/step/<step_name>
process_step(workflow_id, step_name) ==
    /\ Lookup(workflow_db, workflow_id, step_name) = "run" => now < MaxTime
    /\ now' = IF Lookup(workflow_db, workflow_id, step_name) = "run"
              THEN now + 1 ELSE now
    /\ \E inp \in StepInputs(workflow_db, workflow_id, step_name) :
           Answer(workflow_id, step_name,
                  process_workflow_step(workflow_db, workflow_id, step_name,
                                        now, now', inp))
    /\ UNCHANGED << clients_db, regulatory_db, threads, args, returned >>

\* --------------------------------------------------------- specification

\* The module-level stores as the import of app.py leaves them, the clock at
\* its start, no request answered yet and every thread of the server idle.
Started ==
    /\ workflow_db = [ w \in {} |-> 0 ]
    /\ clients_db = [ c \in {} |-> 0 ]
    /\ regulatory_db = [ c \in {} |-> 0 ]
    /\ now = 0
    /\ last = [ op |-> "none" ]
    /\ threads = [ t \in Threads |-> Idle ]

Init ==
    /\ Started
    /\ args = None
    /\ returned = None

Next ==
    \/ \E client_id \in ClientIdInputs : create_workflow(client_id)
    \/ \E workflow_id \in DOMAIN workflow_db \cup {0}, step_name \in StepNameInputs :
           process_step(workflow_id, step_name)

Spec == Init /\ [][Next]_vars

\* ------------------------------------------------- requests side by side

\* A thread that is inside process_workflow_step(workflow_id, step_name), past
\* "step.status = WorkflowStatus.IN_PROGRESS" and not yet at its return.
InTry(workflow_id, step_name) ==
    [ pc |-> "try", workflow_id |-> workflow_id, step_name |-> step_name ]

\* Thread t takes the request POST .../<workflow_id>/step/<step_name> and runs
\* process_workflow_step up to the try block: the lookups, which answer the
\* request at once when they fail, then started_at and IN_PROGRESS.
Enter(t, workflow_id, step_name) ==
    /\ threads[t] = Idle
    /\ IF Lookup(workflow_db, workflow_id, step_name) # "run"
       THEN /\ Answer(workflow_id, step_name,
                      [ db     |-> workflow_db,
                        result |-> Lookup(workflow_db, workflow_id, step_name) ])
            /\ UNCHANGED << now, threads >>
       ELSE /\ now < MaxTime
            /\ now' = now + 1
            /\ workflow_db' = [ workflow_db EXCEPT ![workflow_id] =
                                    BeginStep(@, step_name, now) ]
            /\ threads' = [ threads EXCEPT ![t] = InTry(workflow_id, step_name) ]
            /\ UNCHANGED last
    /\ UNCHANGED << clients_db, regulatory_db, args, returned >>

\* Thread t runs the try block of its request, on the workflow as the store
\* holds it by then, to the return, and process_step answers.
Leave(t) ==
    /\ threads[t].pc = "try"
    /\ \E inp \in StepInputs(workflow_db, threads[t].workflow_id, threads[t].step_name) :
           Answer(threads[t].workflow_id, threads[t].step_name,
                  Outcome(workflow_db, threads[t].workflow_id, threads[t].step_name,
                          StepBody(workflow_db[threads[t].workflow_id],
                                   threads[t].step_name, now, now, inp),
                          now))
    /\ threads' = [ threads EXCEPT ![t] = Idle ]
    /\ UNCHANGED << clients_db, regulatory_db, now, args, returned >>

ConcurrentNext ==
    \/ \E client_id \in ClientIdInputs : create_workflow(client_id)
    \/ \E t \in Threads, workflow_id \in DOMAIN workflow_db \cup {0},
          step_name \in StepNameInputs : Enter(t, workflow_id, step_name)
    \/ \E t \in Threads : Leave(t)

ConcurrentSpec == Init /\ [][ConcurrentNext]_vars

\* ------------------------------------------------------ two workflows
\* The store after two workflows have been created, for client_id and then
\* for other_id, at the first two values of the clock.
TwoCreated(client_id, other_id) ==
    create_regulatory_workflow(
        create_regulatory_workflow([ w \in {} |-> 0 ], client_id, 0), other_id, 1)

\* The server once two POST /api/regulatory/workflow/create requests have
\* been answered: two workflows in the store, every thread idle.
TwoWorkflowsInit ==
    /\ \E client_id, other_id \in ClientIdInputs \ { "" } :
           /\ workflow_db = TwoCreated(client_id, other_id)
           /\ last = [ op |-> "create_workflow", client_id |-> other_id,
                       code |-> 200,
                       body |-> [ status      |-> "success",
                                  workflow_id |-> uuid4(create_regulatory_workflow(
                                                      [ w \in {} |-> 0 ], client_id, 0)),
                                  client_id   |-> other_id,
                                  steps       |-> StepNames ] ]
    /\ clients_db = [ c \in {} |-> 0 ]
    /\ regulatory_db = [ c \in {} |-> 0 ]
    /\ now = 2
    /\ threads = [ t \in Threads |-> Idle ]
    /\ args = None
    /\ returned = None

\* The threads serve step requests on the workflows of the store.
TwoWorkflowsNext ==
    \/ \E t \in Threads, workflow_id \in DOMAIN workflow_db,
          step_name \in StepNameInputs : Enter(t, workflow_id, step_name)
    \/ \E t \in Threads : Leave(t)

TwoWorkflowsSpec == TwoWorkflowsInit /\ [][TwoWorkflowsNext]_vars

\* ------------------------------------------------------ one workflow
\* The requests of Spec on a store that holds at most one workflow, with the
\* clock started so far back that the creation of the workflow and one run
\* for each of its steps fit before MaxTime.
LifeInit ==
    /\ workflow_db = [ w \in {} |-> 0 ]
    /\ clients_db = [ c \in {} |-> 0 ]
    /\ regulatory_db = [ c \in {} |-> 0 ]
    /\ now = MaxTime - (Len(StepNames) + 1)
    /\ last = [ op |-> "none" ]
    /\ threads = [ t \in Threads |-> Idle ]
    /\ args = None
    /\ returned = None

LifeNext ==
    \/ /\ DOMAIN workflow_db = {}
       /\ \E client_id \in ClientIdInputs : create_workflow(client_id)
    \/ \E workflow_id \in DOMAIN workflow_db \cup {0}, step_name \in StepNameInputs :
           process_step(workflow_id, step_name)

LifeSpec == LifeInit /\ [][LifeNext]_vars

\* ------------------------------------------------- the classifier alone

\* Longest rule set drawn besides the shipped one.
MaxRules == 2

\* ClientData(...) with the fields the classifier reads set as given; the
\* approved products have the product types `product_types`, in that order.
ClientData(client_id, entity_type, jurisdiction, aum_usd, product_types) ==
    [ client_id         |-> client_id,
      entity_name       |-> "Entity",
      entity_type       |-> entity_type,
      jurisdiction      |-> jurisdiction,
      aum_usd           |-> aum_usd,
      business_type     |-> "Investment Management",
      contact_person    |-> "Contact",
      email             |-> "contact@entity.example",
      approved_products |-> [ i \in 1..Len(product_types) |->
                                Product("Product", product_types[i], "low") ],
      created_at        |-> 0 ]

\* Profiles handed to the classifier: jurisdictions inside and outside the
\* rules' lists, entity types likewise, an AUM below, at and above a
\* threshold, and no, one or two approved products.
Profiles ==
    { ClientData("CLIENT_X", entity_type, jurisdiction, aum_usd, product_types) :
          entity_type \in { "hedge_fund", "pension_fund" },
          jurisdiction \in { "EU", "US" },
          aum_usd \in { 4999999, 5000000, 250000000 },
          product_types \in { << >>, << "derivatives" >>, << "bonds", "equities" >> } }

\* A conditions dict with every key, and the dict it is with the keys K only.
AllConditions ==
    [ jurisdiction  |-> { "EU", "UK" },
      entity_types  |-> { "hedge_fund" },
      aum_threshold |-> 5000000,
      products      |-> { "derivatives", "swaps" } ]

WithKeys(conditions, K) == [ k \in K |-> conditions[k] ]

\* Conditions dicts of the drawn rules: every choice of keys, a jurisdiction
\* list with GLOBAL in it, and product lists that are empty.
ConditionsInputs ==
    { WithKeys(AllConditions, K) : K \in SUBSET DOMAIN AllConditions }
    \cup { [ jurisdiction |-> { "US", "GLOBAL" } ],
           [ products |-> {} ],
           [ jurisdiction |-> { "US", "GLOBAL" }, products |-> {} ],
           [ entity_types |-> { "hedge_fund" }, products |-> {} ] }

\* RegulationRule(regulation_name=..., conditions=..., required_documents=[]);
\* the i-th rule of a drawn set has the name of the i-th shipped rule, so
\* that the names of a rule set differ.
RuleSetOf(conditions) ==
    [ i \in 1..Len(conditions) |->
        [ regulation_name    |-> REGULATION_RULES[i].regulation_name,
          conditions         |-> conditions[i],
          required_documents |-> << >> ] ]

\* The rule sets the classifier runs over: the shipped one and every list of
\* at most MaxRules drawn rules.
RuleSets ==
    { REGULATION_RULES }
    \cup UNION { { RuleSetOf(c) : c \in [ 1..n -> ConditionsInputs ] } : n \in 0..MaxRules }

ClassifyInit ==
    /\ Started
    /\ args \in [ rules : RuleSets, client_data : Profiles ]
    /\ returned = None

\* classify_applicable_regulations(client_data) with REGULATION_RULES = rules.
Classify ==
    /\ IsNone(returned)
    /\ returned' = Some(classify(args.rules, args.client_data))
    /\ UNCHANGED << workflow_db, clients_db, regulatory_db, now, last, threads, args >>

ClassifySpec == ClassifyInit /\ [][Classify]_vars

\* ------------------------------------------------- the aggregation alone

\* Longest list of checks of one kind.
MaxChecks == 2

\* class CheckStatus(Enum): member name -> value.
CheckStatus ==
    [ PENDING       |-> "pending",
      IN_PROGRESS   |-> "in_progress",
      PASSED        |-> "passed",
      FAILED        |-> "failed",
      MANUAL_REVIEW |-> "manual_review" ]

\* HighLevelCheck(...) and DataQualityCheck(...), by the fields the
\* aggregation reads and the regulation the check is for.
StatusCheck(regulation_name, status) ==
    [ regulation_name |-> regulation_name, status |-> status ]

\* DocumentCheck(...), likewise; manual_review_status is PENDING for an AI
\* status MANUAL_REVIEW and PASSED otherwise.
DocumentCheck(regulation_name, ai_status) ==
    [ regulation_name      |-> regulation_name,
      ai_validation_status |-> ai_status,
      manual_review_status |-> IF ai_status = CheckStatus.MANUAL_REVIEW
                               THEN CheckStatus.PENDING ELSE CheckStatus.PASSED ]

\* sum([1 for check in checks if check.<field> in statuses])
CountOf(checks, field, statuses) ==
    Cardinality({ i \in 1..Len(checks) : checks[i][field] \in statuses })

total_checks(high_level_checks, document_checks, dq_checks) ==
    Len(high_level_checks) + Len(document_checks) + Len(dq_checks)

completed_checks(high_level_checks, document_checks, dq_checks) ==
    CountOf(high_level_checks, "status", { CheckStatus.PASSED, CheckStatus.FAILED })
    + CountOf(document_checks, "ai_validation_status",
              { CheckStatus.PASSED, CheckStatus.FAILED })
    + CountOf(dq_checks, "status", { CheckStatus.PASSED, CheckStatus.FAILED })

\* A float, as the fraction num/den of two integers (den > 0); the rounding
\* of the division is left out.
Float(num, den) == [ num |-> num, den |-> den ]

\* progress = (completed_checks / total_checks) * 100 if total_checks > 0 else 0
progress(completed, total) ==
    IF total > 0 THEN Float(completed * 100, total) ELSE Float(0, 1)

failed_checks(high_level_checks, dq_checks) ==
    CountOf(high_level_checks, "status", { CheckStatus.FAILED })
    + CountOf(dq_checks, "status", { CheckStatus.FAILED })

manual_review_needed(document_checks) ==
    CountOf(document_checks, "ai_validation_status", { CheckStatus.MANUAL_REVIEW })

\* Mutant of overall_status: a document check that needs manual review is
\* looked at before the failed checks.
overall_status_ReviewFirst(failed, manual_review) ==
    IF manual_review > 0 THEN CheckStatus.MANUAL_REVIEW
    ELSE IF failed > 0 THEN CheckStatus.FAILED
    ELSE CheckStatus.PASSED

\* if failed_checks > 0: ... elif manual_review_needed > 0: ... else: ...
overall_status(failed, manual_review) ==
    IF failed > 0 THEN CheckStatus.FAILED
    ELSE IF manual_review > 0 THEN CheckStatus.MANUAL_REVIEW
    ELSE CheckStatus.PASSED

\* str(uuid.uuid4()) for a classification: an id regulatory_db does not hold.
NewClassificationId(db) ==
    CHOOSE n \in 1..(Cardinality(DOMAIN db) + 1) : n \notin DOMAIN db

\* Mutant of RegulatoryClassification: the completion timestamp is written
\* whatever the status.
RegulatoryClassification_AlwaysCompleted(client_id, classification_id, status, high_level_checks, document_checks, dq_checks, overall_progress, t) ==
    [ client_id         |-> client_id,
      classification_id |-> classification_id,
      status            |-> status,
      high_level_checks |-> high_level_checks,
      document_checks   |-> document_checks,
      dq_checks         |-> dq_checks,
      overall_progress  |-> overall_progress,
      created_at        |-> t,
      completed_at      |-> Some(t) ]

\* classification = RegulatoryClassification(...)
RegulatoryClassification(client_id, classification_id, status, high_level_checks, document_checks, dq_checks, overall_progress, t) ==
    [ client_id         |-> client_id,
      classification_id |-> classification_id,
      status            |-> status,
      high_level_checks |-> high_level_checks,
      document_checks   |-> document_checks,
      dq_checks         |-> dq_checks,
      overall_progress  |-> overall_progress,
      created_at        |-> t,
      completed_at      |-> IF status \in { CheckStatus.PASSED, CheckStatus.FAILED }
                            THEN Some(t) ELSE None ]

\* trigger_regulatory_classification from "Calculate overall progress" to the
\* classification it builds, for the three lists of checks made before.
Classification(db, client_id, high_level_checks, document_checks, dq_checks, t) ==
    RegulatoryClassification(
        client_id, NewClassificationId(db),
        overall_status(failed_checks(high_level_checks, dq_checks),
                       manual_review_needed(document_checks)),
        high_level_checks, document_checks, dq_checks,
        progress(completed_checks(high_level_checks, document_checks, dq_checks),
                 total_checks(high_level_checks, document_checks, dq_checks)),
        t)

RECURSIVE SeqsUpTo(_, _)
\* The sequences over S of length at most n.
SeqsUpTo(S, n) ==
    IF n = 0 THEN { << >> }
    ELSE LET shorter == SeqsUpTo(S, n - 1)
         IN shorter \cup { Append(q, x) : q \in shorter, x \in S }

\* Lists of checks handed to the aggregation: what generate_high_level_checks
\* and process_dq_checks give (PASSED, FAILED) and a check still PENDING; what
\* process_document_checks gives (PASSED, MANUAL_REVIEW) and a FAILED one.
StatusCheckLists ==
    SeqsUpTo({ StatusCheck("MiFID II", status) :
                   status \in { CheckStatus.PASSED, CheckStatus.FAILED,
                                CheckStatus.PENDING } },
             MaxChecks)

DocumentCheckLists ==
    SeqsUpTo({ DocumentCheck("MiFID II", ai_status) :
                   ai_status \in { CheckStatus.PASSED, CheckStatus.MANUAL_REVIEW,
                                   CheckStatus.FAILED } },
             MaxChecks)

AggregateInit ==
    /\ Started
    /\ args \in [ client_id         : { "CLIENT_001" },
                   high_level_checks : StatusCheckLists,
                   document_checks   : DocumentCheckLists,
                   dq_checks         : StatusCheckLists ]
    /\ returned = None

\* The statement "regulatory_db[classification.classification_id] =
\* classification" and the return, for the classification built.
Store(classification) ==
    /\ regulatory_db' = [ id \in DOMAIN regulatory_db \cup
                                     { classification.classification_id } |->
                            IF id = classification.classification_id
                            THEN classification ELSE regulatory_db[id] ]
    /\ returned' = Some(classification)

\* trigger_regulatory_classification from "Calculate overall progress" on.
Aggregate ==
    /\ IsNone(returned)
    /\ Store(Classification(regulatory_db, args.client_id, args.high_level_checks,
                            args.document_checks, args.dq_checks, now))
    /\ UNCHANGED << workflow_db, clients_db, now, last, threads, args >>

AggregateSpec == AggregateInit /\ [][Aggregate]_vars

\* --------------------------------------------- the check processors alone

\* a < b for two floats.
FloatLess(a, b) == a.num * b.den < b.num * a.den

\* a + b for two floats.
FloatAdd(a, b) ==
    IF a.den = b.den THEN Float(a.num + b.num, a.den)
    ELSE Float(a.num * b.den + b.num * a.den, a.den * b.den)

\* The regulations handed to the processors: names of two shipped rules.
RegulationInputs == { "MiFID II", "FATCA" }

\* mock_document_api(client_id, regulation), by the keys its caller reads and
\* the content; `number` is random.randint(1000, 9999).
mock_document_api(client_id, regulation, number) ==
    [ document_id   |-> << "DOC_", client_id, "_", regulation, "_", number >>,
      document_type |-> "regulatory_compliance_statement",
      content       |-> << "Mock OCR extracted content for ", regulation,
                           " compliance document. This document certifies that ",
                           client_id, " meets the requirements for ", regulation,
                           " regulation. Key compliance points: 1) Entity registration verified 2) Business activities approved 3) Financial thresholds met 4) Reporting obligations understood." >> ]

\* mock_llm_document_validation(content, regulation) without its
\* validation_points; `confidence` is random.uniform(0.7, 0.95).
mock_llm_document_validation(content, regulation, confidence) ==
    LET is_compliant == FloatLess(Float(8, 10), confidence) IN
    [ is_compliant     |-> is_compliant,
      confidence_score |-> confidence,
      issues_found     |-> IF is_compliant THEN << >>
                           ELSE << << "Missing specific ", regulation,
                                      " compliance sections" >>,
                                   << "Incomplete entity information" >>,
                                   << "Unclear business activity descriptions" >> >>,
      recommendation   |-> IF is_compliant THEN "APPROVED"
                           ELSE "MANUAL_REVIEW_REQUIRED",
      analysis_summary |-> << "Document analysis for ", regulation, " shows ",
                              IF is_compliant THEN "strong compliance indicators"
                              ELSE "areas requiring manual review", "." >> ]

\* ai_status of process_document_checks.
ai_status(llm_result) ==
    IF llm_result.is_compliant THEN CheckStatus.PASSED ELSE CheckStatus.MANUAL_REVIEW

\* Mutant of manual_status: the manual review of a document the AI sent to
\* manual review counts as passed.
manual_status_Passed(ai) == CheckStatus.PASSED

\* manual_status of process_document_checks.
manual_status(ai) ==
    IF ai = CheckStatus.MANUAL_REVIEW THEN CheckStatus.PENDING ELSE CheckStatus.PASSED

\* check = DocumentCheck(...) of process_document_checks.
ProcessedDocumentCheck(check_id, regulation, doc_data, llm_result, t) ==
    [ check_id             |-> check_id,
      regulation_name      |-> regulation,
      document_type        |-> doc_data.document_type,
      document_id          |-> doc_data.document_id,
      ai_validation_status |-> ai_status(llm_result),
      manual_review_status |-> manual_status(ai_status(llm_result)),
      ai_confidence        |-> llm_result.confidence_score,
      ai_feedback          |-> llm_result.analysis_summary,
      manual_notes         |-> << >>,
      created_at           |-> t,
      completed_at         |-> IF ai_status(llm_result) = CheckStatus.PASSED
                               THEN Some(t) ELSE None ]

\* One turn of the loop of process_document_checks, for what the two mock
\* services draw at random.
DocumentCheckFor(client_id, check_id, regulation, draw, t) ==
    ProcessedDocumentCheck(
        check_id, regulation,
        mock_document_api(client_id, regulation, draw.number),
        mock_llm_document_validation(
            mock_document_api(client_id, regulation, draw.number).content,
            regulation, draw.confidence),
        t)

\* process_document_checks(client_id, regulations); draws[i] is what the mock
\* services draw for the i-th regulation.
process_document_checks(client_id, regulations, draws, t) ==
    [ i \in 1..Len(regulations) |->
        DocumentCheckFor(client_id, i, regulations[i], draws[i], t) ]

\* What the mock services draw for one document: a confidence at the ends of
\* its range and on either side of 0.8, and a document number at either end.
DocumentDraws ==
    { [ confidence |-> Float(c, 100), number |-> n ] :
          c \in { 70, 80, 81, 95 }, n \in { 1000, 9999 } }

\* Arguments with one draw of `Draws` for each regulation.
ProcessorArgs(Draws) ==
    UNION { [ client_id   : { "CLIENT_001" },
              regulations : [ 1..n -> RegulationInputs ],
              draws       : [ 1..n -> Draws ] ] : n \in 0..MaxChecks }

DocumentChecksInit ==
    /\ Started
    /\ args \in ProcessorArgs(DocumentDraws)
    /\ returned = None

ProcessDocumentChecks ==
    /\ IsNone(returned)
    /\ returned' = Some(process_document_checks(args.client_id, args.regulations,
                                                args.draws, now))
    /\ UNCHANGED << workflow_db, clients_db, regulatory_db, now, last, threads, args >>

DocumentChecksSpec == DocumentChecksInit /\ [][ProcessDocumentChecks]_vars

\* fields_to_check of mock_dq_api.
fields_to_check ==
    << "entity_name", "registration_number", "jurisdiction", "business_address",
       "contact_information", "financial_data", "regulatory_permissions",
       "reporting_obligations" >>

\* issues of mock_dq_api before the slice.
FieldIssues(field, score) ==
    IF FloatLess(score, Float(8, 10))
    THEN << << "Data completeness: ", field, " missing required sub-fields" >>,
            << "Data format: ", field, " format validation failed" >>,
            << "Data freshness: ", field, " last updated > 90 days ago" >> >>
    ELSE << >>

\* sequence[:stop] of Python, for stop >= 0.
SliceTo(sequence, stop) ==
    SubSeq(sequence, 1, IF stop < Len(sequence) THEN stop ELSE Len(sequence))

\* Mutant of FieldStatus: a score has to be above 0.8 to pass.
FieldStatus_Above(score) ==
    IF FloatLess(Float(8, 10), score) THEN "PASSED" ELSE "FAILED"

\* 'PASSED' if score >= 0.8 else 'FAILED'
FieldStatus(score) ==
    IF ~ FloatLess(score, Float(8, 10)) THEN "PASSED" ELSE "FAILED"

\* dq_results[field] of mock_dq_api; draw.score is random.uniform(0.6, 1.0)
\* and draw.stop is random.randint(0, 2).
FieldResult(field, draw) ==
    [ score  |-> draw.score,
      status |-> FieldStatus(draw.score),
      issues |-> SliceTo(FieldIssues(field, draw.score), draw.stop) ]

RECURSIVE SumOfScores(_, _)
\* overall_score after the first n fields of the loop of mock_dq_api.
SumOfScores(draws, n) ==
    IF n = 0 THEN Float(0, 1)
    ELSE FloatAdd(SumOfScores(draws, n - 1), draws[fields_to_check[n]].score)

\* overall_score /= total_fields
overall_dq_score(draws) ==
    Float(SumOfScores(draws, Len(fields_to_check)).num,
          SumOfScores(draws, Len(fields_to_check)).den * Len(fields_to_check))

\* mock_dq_api(client_id, regulation); draws[field] is what it draws for the
\* field.
mock_dq_api(client_id, regulation, draws, t) ==
    [ client_id        |-> client_id,
      regulation       |-> regulation,
      overall_dq_score |-> overall_dq_score(draws),
      overall_status   |-> FieldStatus(overall_dq_score(draws)),
      field_results    |-> [ i \in 1..Len(fields_to_check) |->
                               FieldResult(fields_to_check[i],
                                           draws[fields_to_check[i]]) ],
      checked_at       |-> t,
      recommendations  |->
          IF FloatLess(overall_dq_score(draws), Float(8, 10))
          THEN << "Update stale data fields within 30 days",
                  "Validate business address against official registries",
                  "Complete missing regulatory permission documentation" >>
          ELSE << >> ]

\* check = DataQualityCheck(...) of process_dq_checks.
ProcessedDataQualityCheck(check_id, regulation, field_name, field_result, t) ==
    [ check_id        |-> check_id,
      regulation_name |-> regulation,
      field_name      |-> field_name,
      status          |-> IF field_result.status = "PASSED"
                          THEN CheckStatus.PASSED ELSE CheckStatus.FAILED,
      dq_score        |-> field_result.score,
      issues          |-> field_result.issues,
      created_at      |-> t,
      completed_at    |-> Some(t) ]

\* process_dq_checks(client_id, regulations): the checks of the n-th field of
\* the r-th regulation, r by r and field by field; draws[r] is what
\* mock_dq_api draws for the r-th regulation.
process_dq_checks(client_id, regulations, draws, t) ==
    [ k \in 1..(Len(regulations) * Len(fields_to_check)) |->
        LET r == ((k - 1) \div Len(fields_to_check)) + 1
            n == ((k - 1) % Len(fields_to_check)) + 1
        IN ProcessedDataQualityCheck(
               k, regulations[r], fields_to_check[n],
               mock_dq_api(client_id, regulations[r], draws[r], t).field_results[n],
               t) ]

\* What mock_dq_api draws for one field: a score at the ends of its range and
\* on either side of 0.8, and every end of the slice.
FieldDraws ==
    { [ score |-> Float(c, 100), stop |-> k ] : c \in { 60, 79, 80, 100 }, k \in 0..2 }

\* What mock_dq_api draws for the fields of one regulation: the same for
\* every field, or a draw of its own for the first field beside fields that
\* score 1.0.
DataQualityDraws ==
    { [ f \in { fields_to_check[i] : i \in 1..Len(fields_to_check) } |-> d ] :
          d \in FieldDraws }
    \cup { [ f \in { fields_to_check[i] : i \in 1..Len(fields_to_check) } |->
               IF f = fields_to_check[1] THEN d
               ELSE [ score |-> Float(100, 100), stop |-> 2 ] ] :
             d \in FieldDraws }

DataQualityInit ==
    /\ Started
    /\ args \in ProcessorArgs(DataQualityDraws)
    /\ returned = None

ProcessDqChecks ==
    /\ IsNone(returned)
    /\ returned' = Some(process_dq_checks(args.client_id, args.regulations,
                                          args.draws, now))
    /\ UNCHANGED << workflow_db, clients_db, regulatory_db, now, last, threads, args >>

DataQualitySpec == DataQualityInit /\ [][ProcessDqChecks]_vars

\* ====================================================================
\* Properties
\* ====================================================================

\* The step taken is the request process_step(w, s).
Called(w, s) ==
    /\ last'.op = "process_step"
    /\ last'.workflow_id = w
    /\ last'.step_name = s

\* The step taken is a request process_step(w, s) that got to the try block.
Ran(w, s) ==
    /\ Called(w, s)
    /\ w \in DOMAIN workflow_db
    /\ s \in StepNameSet

\* The request of the step taken was answered with a failure.
Refused == last'.code # 200

StepRec(db, w, s) == db[w].workflow_steps[s]

\* The state is the one a request process_step(w, s) has just left.
JustCalled(w, s) ==
    /\ last.op = "process_step"
    /\ last.workflow_id = w
    /\ last.step_name = s

Contains(message, piece) == \E i \in 1..Len(message) : message[i] = piece

\* -------------------------------------------------------------------- C1
\* C1: once a workflow's overall status is rejected, every later request to
\* advance one of its steps is refused and changes nothing of the workflow.
C1_RejectedWorkflowRefusesSteps ==
    [][ \A w \in DOMAIN workflow_db : \A s \in StepNameSet :
          ( workflow_db[w].overall_status = WorkflowStatus.REJECTED /\ Called(w, s) )
          => ( Refused /\ workflow_db'[w] = workflow_db[w] ) ]_vars

\* -------------------------------------------------------------------- C2
\* C2: when a manual_review run whose reviewer decision is "rejected" returns,
\* the manual_review step is rejected and so is the workflow's overall status.
C2_RejectedReview ==
    [][ \A w \in DOMAIN workflow_db :
          ( /\ Ran(w, "manual_review")
            /\ StepRec(workflow_db', w, "manual_review").details.review_decision
                   = "rejected" )
          => ( /\ StepRec(workflow_db', w, "manual_review").status
                      = WorkflowStatus.REJECTED
               /\ workflow_db'[w].overall_status = WorkflowStatus.REJECTED ) ]_vars

\* A manual_review request has just returned with the decision "rejected".
C2_Witness ==
    \E w \in DOMAIN workflow_db :
        /\ JustCalled(w, "manual_review")
        /\ StepRec(workflow_db, w, "manual_review").details.review_decision = "rejected"
        /\ workflow_db[w].overall_status = WorkflowStatus.REJECTED

\* -------------------------------------------------------------------- C3
\* C3: document_validation requested while regulation_classification has not
\* completed (the applicable-regulations list is empty) reports a failure and
\* does not leave the document_validation step completed.
C3_DocumentValidationNeedsClassification ==
    [][ \A w \in DOMAIN workflow_db :
          ( /\ Called(w, "document_validation")
            /\ StepRec(workflow_db, w, "regulation_classification").status
                   # WorkflowStatus.COMPLETED
            /\ workflow_db[w].applicable_regulations = << >> )
          => ( /\ Refused
               /\ StepRec(workflow_db', w, "document_validation").status
                      # WorkflowStatus.COMPLETED ) ]_vars

\* -------------------------------------------------------------------- C4
\* C4: regulation_classification requested while the client profile is absent
\* changes nothing of the workflow.
C4_ClassificationWithoutProfileChangesNothing ==
    [][ \A w \in DOMAIN workflow_db :
          ( Called(w, "regulation_classification") /\ IsNone(workflow_db[w].client_data) )
          => workflow_db'[w] = workflow_db[w] ]_vars

\* -------------------------------------------------------------------- C5
\* C5: a client_communication request on a workflow whose
\* regulation_classification step has not completed is refused, does not end
\* completed and appends no communication.
C5_CommunicationNeedsClassification ==
    [][ \A w \in DOMAIN workflow_db :
          ( /\ Called(w, "client_communication")
            /\ StepRec(workflow_db, w, "regulation_classification").status
                   # WorkflowStatus.COMPLETED )
          => ( /\ Refused
               /\ StepRec(workflow_db', w, "client_communication").status
                      # WorkflowStatus.COMPLETED
               /\ workflow_db'[w].communications = workflow_db[w].communications ) ]_vars

\* -------------------------------------------------------------------- C6
\* A required document is reported unavailable in the results the step stored.
RequiredDocumentMissing(details) ==
    \E regulation \in DOMAIN details.document_results :
        LET documents == details.document_results[regulation].documents IN
        \E ty \in DOMAIN documents :
            documents[ty].required /\ ~ documents[ty].available

\* C6: document_validation over a non-empty applicable-regulations list ends
\* manual_review_required, with manual_review moved from not_started to
\* pending, when a required document is missing; it ends completed, with
\* manual_review unchanged, when none is.
C6_DocumentValidationOutcome ==
    [][ \A w \in DOMAIN workflow_db :
          ( Ran(w, "document_validation") /\ workflow_db[w].applicable_regulations # << >> )
          => LET step == StepRec(workflow_db', w, "document_validation") IN
             IF RequiredDocumentMissing(step.details)
             THEN /\ step.status = WorkflowStatus.MANUAL_REVIEW_REQUIRED
                  /\ StepRec(workflow_db, w, "manual_review").status
                         = WorkflowStatus.NOT_STARTED
                     => StepRec(workflow_db', w, "manual_review").status = "pending"
             ELSE /\ step.status = WorkflowStatus.COMPLETED
                  /\ StepRec(workflow_db', w, "manual_review")
                         = StepRec(workflow_db, w, "manual_review") ]_vars

\* -------------------------------------------------------------------- C7
\* C7: client_import on a workflow whose client id System X does not know
\* leaves the step failed with an error message that contains the id, the
\* overall status as it was (not_started stays not_started) and the profile
\* absent.
C7_ImportOfUnknownClient ==
    [][ \A w \in DOMAIN workflow_db :
          ( Ran(w, "client_import")
            /\ workflow_db[w].client_id \notin DOMAIN SAMPLE_CLIENTS )
          => LET step == StepRec(workflow_db', w, "client_import") IN
             /\ step.status = WorkflowStatus.FAILED
             /\ ~ IsNone(step.error_message)
             /\ Contains(step.error_message[1], workflow_db[w].client_id)
             /\ workflow_db'[w].overall_status = workflow_db[w].overall_status
             /\ workflow_db[w].overall_status = WorkflowStatus.NOT_STARTED
                    => workflow_db'[w].overall_status = WorkflowStatus.NOT_STARTED
             /\ IsNone(workflow_db'[w].client_data) ]_vars

\* client_import has just returned on a workflow of an unknown client.
C7_Witness ==
    \E w \in DOMAIN workflow_db :
        /\ JustCalled(w, "client_import")
        /\ workflow_db[w].client_id = "CLIENT_404"
        /\ StepRec(workflow_db, w, "client_import").status = WorkflowStatus.FAILED
        /\ workflow_db[w].overall_status = WorkflowStatus.NOT_STARTED
        /\ IsNone(workflow_db[w].client_data)

\* -------------------------------------------------------------------- C8
\* The run of step s of workflow w that the step taken makes raises in the try
\* block: the client is unknown to System X, the profile a step reads is
\* absent, or a required document is missing (the status the step then reads
\* is no member of WorkflowStatus).
Raises(w, s) ==
    /\ Ran(w, s)
    /\ \/ /\ s = "client_import"
          /\ workflow_db[w].client_id \notin DOMAIN SAMPLE_CLIENTS
       \/ /\ s \in { "regulation_classification", "client_communication" }
          /\ IsNone(workflow_db[w].client_data)
       \/ /\ s = "document_validation"
          /\ RequiredDocumentMissing(StepRec(workflow_db', w, s).details)

\* C8: a step whose run raises ends failed, with the error message recorded
\* and completed_at set, the request is answered with a failure and the
\* overall status is unchanged; a request for a step that is failed runs the
\* step again.
C8_FailedStepIsRecordedAndRetried ==
    [][ \A w \in DOMAIN workflow_db : \A s \in StepNameSet :
          /\ Raises(w, s)
             => /\ StepRec(workflow_db', w, s).status = WorkflowStatus.FAILED
                /\ ~ IsNone(StepRec(workflow_db', w, s).error_message)
                /\ StepRec(workflow_db', w, s).completed_at = Some(now')
                /\ last'.result = "False"
                /\ Refused
                /\ workflow_db'[w].overall_status = workflow_db[w].overall_status
          /\ ( Called(w, s) /\ StepRec(workflow_db, w, s).status = WorkflowStatus.FAILED )
             => /\ last'.result \in { "True", "False" }
                /\ StepRec(workflow_db', w, s).started_at = Some(now)
                /\ StepRec(workflow_db', w, s).completed_at = Some(now')
                /\ StepRec(workflow_db', w, s).status # WorkflowStatus.IN_PROGRESS ]_vars

\* A step that had failed (its error message is still there) has just been
\* run again and ended completed.
C8_Witness ==
    \E w \in DOMAIN workflow_db : \E s \in StepNameSet :
        /\ JustCalled(w, s)
        /\ StepRec(workflow_db, w, s).status = WorkflowStatus.COMPLETED
        /\ ~ IsNone(StepRec(workflow_db, w, s).error_message)

\* -------------------------------------------------------------------- C9
\* C9: a step run that ends failed leaves every other step record, the overall
\* status, the profile, the applicable regulations and the communications of
\* the workflow as they were.
C9_FailedStepChangesOnlyItself ==
    [][ \A w \in DOMAIN workflow_db : \A s \in StepNameSet :
          ( Ran(w, s) /\ StepRec(workflow_db', w, s).status = WorkflowStatus.FAILED )
          => /\ \A o \in StepNameSet \ {s} :
                    StepRec(workflow_db', w, o) = StepRec(workflow_db, w, o)
             /\ workflow_db'[w].overall_status = workflow_db[w].overall_status
             /\ workflow_db'[w].client_data = workflow_db[w].client_data
             /\ workflow_db'[w].applicable_regulations
                    = workflow_db[w].applicable_regulations
             /\ workflow_db'[w].communications = workflow_db[w].communications ]_vars

\* document_validation has just failed on a workflow that holds a profile and
\* applicable regulations.
C9_Witness ==
    \E w \in DOMAIN workflow_db :
        /\ JustCalled(w, "document_validation")
        /\ StepRec(workflow_db, w, "document_validation").status = WorkflowStatus.FAILED
        /\ workflow_db[w].applicable_regulations # << >>
        /\ ~ IsNone(workflow_db[w].client_data)

\* ------------------------------------------------------------------- C10
\* C10: a process_step request with a workflow id that is not in the store, or
\* with a step name that is none of the five, is answered with a failure and
\* changes none of the three stores.
C10_UnknownWorkflowOrStep ==
    [][ ( /\ last'.op = "process_step"
          /\ \/ last'.workflow_id \notin DOMAIN workflow_db
             \/ last'.step_name \notin StepNameSet )
        => ( /\ last'.code = 500
             /\ DOMAIN last'.body = { "error" }
             /\ workflow_db' = workflow_db
             /\ clients_db' = clients_db
             /\ regulatory_db' = regulatory_db ) ]_vars

\* A request for a step name that is none of the five, on a workflow that has
\* imported its client, has just been answered.
C10_Witness ==
    /\ last.op = "process_step"
    /\ last.code = 500
    /\ last.step_name \notin StepNameSet
    /\ last.workflow_id \in DOMAIN workflow_db
    /\ ~ IsNone(workflow_db[last.workflow_id].client_data)

\* ------------------------------------------------------------------- C11
\* The regulation names of a rule set, in declaration order.
RegulationNames(rules) == [ i \in 1..Len(rules) |-> rules[i].regulation_name ]

\* The product types of a profile's approved products.
ProductTypes(profile) ==
    { profile.approved_products[i].product_type :
          i \in 1..Len(profile.approved_products) }

JurisdictionPasses(conditions, profile) ==
    "jurisdiction" \in DOMAIN conditions
        => ( profile.jurisdiction \in conditions.jurisdiction
             \/ "GLOBAL" \in conditions.jurisdiction )

EntityTypePasses(conditions, profile) ==
    "entity_types" \in DOMAIN conditions
        => profile.entity_type \in conditions.entity_types

AumPasses(conditions, profile) ==
    "aum_threshold" \in DOMAIN conditions
        => profile.aum_usd >= conditions.aum_threshold

ProductsPass(conditions, profile) ==
    "products" \in DOMAIN conditions
        => conditions.products \cap ProductTypes(profile) # {}

\* C11: the classifier returns a rule's regulation exactly when every
\* condition the rule specifies passes: the profile's jurisdiction is in the
\* rule's list or the list has GLOBAL, its entity type is in the rule's list,
\* its AUM is at least the threshold, and one of its product types is in the
\* rule's product list; a condition the rule does not specify passes.
C11_ClassifiedExactlyWhenConditionsPass ==
    ~ IsNone(returned)
    => \A i \in 1..Len(args.rules) :
           Contains(returned[1], args.rules[i].regulation_name)
           <=> ( /\ JurisdictionPasses(args.rules[i].conditions, args.client_data)
                 /\ EntityTypePasses(args.rules[i].conditions, args.client_data)
                 /\ AumPasses(args.rules[i].conditions, args.client_data)
                 /\ ProductsPass(args.rules[i].conditions, args.client_data) )

\* The classifier has returned, for a profile whose AUM equals the threshold
\* of a rule that specifies all four conditions, that rule's regulation and
\* not the regulation of a second rule.
C11_Witness ==
    /\ ~ IsNone(returned)
    /\ Len(args.rules) = 2
    /\ args.rules[1].conditions = AllConditions
    /\ args.client_data.aum_usd = AllConditions.aum_threshold
    /\ returned[1] = << args.rules[1].regulation_name >>

\* ------------------------------------------------------------------- C12
\* The profile of the scenario: EU, hedge fund, AUM 250,000,000, and the one
\* product type derivatives.
EuHedgeFund(profile) ==
    /\ profile.jurisdiction = "EU"
    /\ profile.entity_type = "hedge_fund"
    /\ profile.aum_usd = 250000000
    /\ [ i \in 1..Len(profile.approved_products) |->
            profile.approved_products[i].product_type ] = << "derivatives" >>

\* C12: for the EU hedge fund with AUM 250,000,000 and the product type
\* derivatives, the classifier over the shipped rules returns a list with
\* MiFID II, EMIR and AML/KYC in it and without FATCA.
C12_EuHedgeFundScenario ==
    ( /\ ~ IsNone(returned)
      /\ args.rules = REGULATION_RULES
      /\ EuHedgeFund(args.client_data) )
    => ( /\ Contains(returned[1], "MiFID II")
         /\ Contains(returned[1], "EMIR")
         /\ Contains(returned[1], "AML/KYC")
         /\ ~ Contains(returned[1], "FATCA") )

RECURSIVE IsSubsequence(_, _)
\* s is t with some of its elements left out.
IsSubsequence(s, t) ==
    IF s = << >> THEN TRUE
    ELSE IF t = << >> THEN FALSE
    ELSE IF Head(s) = Head(t) THEN IsSubsequence(Tail(s), Tail(t))
    ELSE IsSubsequence(s, Tail(t))

\* C14: the list the classifier returns is a subsequence of the regulation
\* names of the rule set in declaration order, and no name is in it twice.
C14_ClassifiedInDeclarationOrder ==
    ~ IsNone(returned)
    => ( /\ IsSubsequence(returned[1], RegulationNames(args.rules))
         /\ \A i, j \in 1..Len(returned[1]) :
                returned[1][i] = returned[1][j] => i = j )

\* The classifier has returned several of the shipped regulations and not
\* all of them.
C14_Witness ==
    /\ ~ IsNone(returned)
    /\ args.rules = REGULATION_RULES
    /\ Len(returned[1]) >= 2
    /\ Len(returned[1]) < Len(args.rules)

\* ------------------------------------------------------------------- C15
\* Some check of the list has the status in the field.
SomeCheck(checks, field, status) ==
    \E i \in 1..Len(checks) : checks[i][field] = status

\* C15: the aggregated overall status is failed when a high-level or a
\* data-quality check is failed, whatever the document checks; otherwise it
\* is needs-manual-review when the AI status of a document check is
\* needs-manual-review; otherwise it is passed.
C15_FailedBeforeManualReview ==
    ~ IsNone(returned)
    => returned[1].status =
           IF \/ SomeCheck(args.high_level_checks, "status", "failed")
              \/ SomeCheck(args.dq_checks, "status", "failed")
           THEN "failed"
           ELSE IF SomeCheck(args.document_checks, "ai_validation_status",
                             "manual_review")
                THEN "manual_review"
                ELSE "passed"

\* A classification has been aggregated from a failed data-quality check and
\* a document check that needs manual review, and its status is failed.
C15_Witness ==
    /\ ~ IsNone(returned)
    /\ SomeCheck(args.dq_checks, "status", "failed")
    /\ ~ SomeCheck(args.high_level_checks, "status", "failed")
    /\ SomeCheck(args.document_checks, "ai_validation_status", "manual_review")
    /\ returned[1].status = "failed"
    /\ regulatory_db[returned[1].classification_id] = returned[1]

\* ------------------------------------------------------------------- C16
\* The checks of the three lists whose status is passed or failed.
TerminalChecks(high_level_checks, document_checks, dq_checks) ==
    Cardinality({ i \in 1..Len(high_level_checks) :
                      high_level_checks[i].status \in { "passed", "failed" } })
    + Cardinality({ i \in 1..Len(document_checks) :
                        document_checks[i].ai_validation_status
                            \in { "passed", "failed" } })
    + Cardinality({ i \in 1..Len(dq_checks) :
                        dq_checks[i].status \in { "passed", "failed" } })

C17_OneInvocationInFlight ==
    \A t, u \in Threads :
        ( /\ threads[t].pc = "try"
          /\ threads[u].pc = "try"
          /\ threads[t].workflow_id = threads[u].workflow_id
          /\ threads[t].step_name = threads[u].step_name )
        => t = u

\* ------------------------------------------------------------------- C18
\* Deadlines a caller may give a step invocation, in ticks of the clock.
Deadlines == 1..MaxTime

\* C18: a step is not left in_progress past the deadline of its invocation:
\* whatever the deadline, a step that is in_progress was started no longer
\* ago than the deadline (past it, the step would be failed).
C18_NotInProgressPastDeadline ==
    \A deadline \in Deadlines :
        \A w \in DOMAIN workflow_db : \A s \in StepNameSet :
            StepRec(workflow_db, w, s).status = WorkflowStatus.IN_PROGRESS
            => now <= StepRec(workflow_db, w, s).started_at[1] + deadline

\* ------------------------------------------------------------------- C19
\* C19: a client_communication run that ends completed appends exactly one
\* communication, which carries the workflow's client id, and records the
\* profile's email as the recipient; a run that ends failed appends none.
C19_OneCommunicationPerCompletedRun ==
    [][ \A w \in DOMAIN workflow_db :
          Ran(w, "client_communication")
          => LET step == StepRec(workflow_db', w, "client_communication")
                 before == workflow_db[w].communications
                 after == workflow_db'[w].communications
             IN /\ step.status = WorkflowStatus.COMPLETED
                   => /\ Len(after) = Len(before) + 1
                      /\ SubSeq(after, 1, Len(before)) = before
                      /\ after[Len(after)].client_id = workflow_db[w].client_id
                      /\ ~ IsNone(workflow_db[w].client_data)
                      /\ step.details.sent_to = workflow_db[w].client_data[1].email
                /\ step.status = WorkflowStatus.FAILED => after = before ]_vars

\* client_communication has just completed on a workflow on which it had
\* failed before (the error message of that run is still there), and the
\* workflow holds the one communication of the completed run.
C19_Witness ==
    \E w \in DOMAIN workflow_db :
        /\ JustCalled(w, "client_communication")
        /\ StepRec(workflow_db, w, "client_communication").status
               = WorkflowStatus.COMPLETED
        /\ ~ IsNone(StepRec(workflow_db, w, "client_communication").error_message)
        /\ Len(workflow_db[w].communications) = 1
        /\ workflow_db[w].communications[1].client_id = workflow_db[w].client_id

\* ------------------------------------------------------------------- C20
\* C20: whatever request is served, every workflow stays in the store and the
\* communications it had are the first communications it has, unchanged and
\* in the same order.
C20_CommunicationsOnlyAppended ==
    [][ \A w \in DOMAIN workflow_db :
          /\ w \in DOMAIN workflow_db'
          /\ Len(workflow_db[w].communications) <= Len(workflow_db'[w].communications)
          /\ SubSeq(workflow_db'[w].communications, 1,
                    Len(workflow_db[w].communications))
                 = workflow_db[w].communications ]_vars

\* A second communication has just been appended to a workflow, behind the
\* one it held.
C20_Witness ==
    \E w \in DOMAIN workflow_db :
        /\ JustCalled(w, "client_communication")
        /\ Len(workflow_db[w].communications) = 2
        /\ workflow_db[w].communications[1].created_at
               < workflow_db[w].communications[2].created_at

\* ------------------------------------------------------------------- C21
\* Thread t takes or finishes, in the step taken, a request on workflow w.
ActsOn(t, w) ==
    \/ /\ threads[t] = Idle
       /\ threads'[t].pc = "try"
       /\ threads'[t].workflow_id = w
    \/ /\ threads[t].pc = "try"
       /\ threads[t].workflow_id = w
       /\ threads'[t] = Idle

\* C21: however the requests of the threads interleave, a request on one
\* workflow leaves every other workflow of the store as it was: its steps,
\* overall status, profile, applicable regulations and communications.
C21_OtherWorkflowsUntouched ==
    [][ \A t \in Threads : \A a, b \in DOMAIN workflow_db :
          ( a # b /\ ActsOn(t, a) )
          => /\ b \in DOMAIN workflow_db'
             /\ workflow_db'[b].workflow_steps = workflow_db[b].workflow_steps
             /\ workflow_db'[b].overall_status = workflow_db[b].overall_status
             /\ workflow_db'[b].client_data = workflow_db[b].client_data
             /\ workflow_db'[b].applicable_regulations
                    = workflow_db[b].applicable_regulations
             /\ workflow_db'[b].communications = workflow_db[b].communications ]_vars

\* A request on one workflow has just completed its step while a thread is
\* in the try block of a request on another workflow, whose step is still
\* in_progress.
C21_Witness ==
    \E t \in Threads : \E a \in DOMAIN workflow_db :
        /\ threads[t].pc = "try"
        /\ threads[t].workflow_id # a
        /\ last.op = "process_step"
        /\ last.workflow_id = a
        /\ last.code = 200
        /\ \E s \in StepNameSet :
               StepRec(workflow_db, a, s).status = WorkflowStatus.COMPLETED
        /\ StepRec(workflow_db, threads[t].workflow_id, threads[t].step_name).status
               = WorkflowStatus.IN_PROGRESS

\* ------------------------------------------------------------------- C22
\* The workflow is as create_regulatory_workflow leaves a new one: the five
\* steps, all not started and without timestamps, no profile, no applicable
\* regulations, no communications, and the overall status not started.
IsFresh(wf) ==
    /\ DOMAIN wf.workflow_steps = StepNameSet
    /\ Cardinality(DOMAIN wf.workflow_steps) = 5
    /\ \A s \in DOMAIN wf.workflow_steps :
           /\ wf.workflow_steps[s].status = WorkflowStatus.NOT_STARTED
           /\ IsNone(wf.workflow_steps[s].started_at)
           /\ IsNone(wf.workflow_steps[s].completed_at)
    /\ IsNone(wf.client_data)
    /\ wf.applicable_regulations = << >>
    /\ wf.communications = << >>
    /\ wf.overall_status = WorkflowStatus.NOT_STARTED

\* C22: a created workflow is stored under an identifier that was not in
\* use, with exactly the five steps, all not started and without timestamps,
\* no profile, no applicable regulations, no communications and the overall
\* status not started; afterwards no request changes the set of step names
\* of a stored workflow or takes the workflow out of the store.
C22_CreatedFreshAndKept ==
    [][ /\ ( last'.op = "create_workflow" /\ last'.code = 200 /\ last' # last )
           => LET workflow_id == last'.body.workflow_id IN
              /\ workflow_id \notin DOMAIN workflow_db
              /\ DOMAIN workflow_db' = DOMAIN workflow_db \cup { workflow_id }
              /\ IsFresh(workflow_db'[workflow_id])
        /\ \A w \in DOMAIN workflow_db :
              /\ w \in DOMAIN workflow_db'
              /\ DOMAIN workflow_db'[w].workflow_steps
                     = DOMAIN workflow_db[w].workflow_steps ]_vars

\* A workflow has just been created, next to an older one of the same client
\* that has a completed step.
C22_Witness ==
    /\ last.op = "create_workflow"
    /\ last.code = 200
    /\ IsFresh(workflow_db[last.body.workflow_id])
    /\ \E w \in DOMAIN workflow_db :
           /\ w # last.body.workflow_id
           /\ workflow_db[w].client_id = workflow_db[last.body.workflow_id].client_id
           /\ \E s \in StepNameSet :
                  StepRec(workflow_db, w, s).status = WorkflowStatus.COMPLETED

\* ------------------------------------------------------------------- C23
\* The verdict of the validator on the i-th regulation processed.
Verdict(i) ==
    mock_llm_document_validation(
        mock_document_api(args.client_id, args.regulations[i],
                          args.draws[i].number).content,
        args.regulations[i], args.draws[i].confidence).is_compliant

\* C23: the document validator returns one check for each regulation; a
\* compliant verdict gives AI status passed, manual-review status passed and
\* a completion timestamp, a non-compliant verdict (one for a confidence of
\* 0.8 or less) AI status manual_review, manual-review status pending and no
\* completion timestamp.
C23_DocumentCheckFollowsVerdict ==
    ~ IsNone(returned)
    => /\ Len(returned[1]) = Len(args.regulations)
       /\ \A i \in 1..Len(args.regulations) :
            LET check == returned[1][i] IN
            /\ check.regulation_name = args.regulations[i]
            /\ Verdict(i)
               => /\ check.ai_validation_status = CheckStatus.PASSED
                  /\ check.manual_review_status = CheckStatus.PASSED
                  /\ ~ IsNone(check.completed_at)
            /\ ~ Verdict(i)
               => /\ check.ai_validation_status = CheckStatus.MANUAL_REVIEW
                  /\ check.manual_review_status = CheckStatus.PENDING
                  /\ IsNone(check.completed_at)
            /\ args.draws[i].confidence.num * 10 <= 8 * args.draws[i].confidence.den
               => ~ Verdict(i)

\* Two regulations processed, the first with a compliant verdict and a
\* completion timestamp, the second with a confidence of exactly 0.8, sent
\* to manual review.
C23_Witness ==
    /\ ~ IsNone(returned)
    /\ Len(args.regulations) = 2
    /\ Verdict(1)
    /\ ~ IsNone(returned[1][1].completed_at)
    /\ args.draws[2].confidence = Float(80, 100)
    /\ returned[1][2].ai_validation_status = CheckStatus.MANUAL_REVIEW
    /\ returned[1][2].manual_review_status = CheckStatus.PENDING
    /\ IsNone(returned[1][2].completed_at)

\* ------------------------------------------------------------------- C24
\* The score drawn for the field of the k-th data-quality check returned.
ScoreDrawn(k) ==
    LET r == ((k - 1) \div Len(fields_to_check)) + 1
        n == ((k - 1) % Len(fields_to_check)) + 1
    IN args.draws[r][fields_to_check[n]].score

\* C24: there is one data-quality check for every monitored field of every
\* regulation; its status is passed exactly when the field's score is at
\* least 0.8 and failed otherwise; a passed check carries no issues and a
\* failed check at most two.
C24_DqStatusFollowsScore ==
    ~ IsNone(returned)
    => /\ Len(returned[1]) = Len(args.regulations) * 8
       /\ \A k \in 1..Len(returned[1]) :
            LET check == returned[1][k] IN
            /\ check.dq_score = ScoreDrawn(k)
            /\ check.status \in { CheckStatus.PASSED, CheckStatus.FAILED }
            /\ check.status = CheckStatus.PASSED
               <=> ScoreDrawn(k).num * 10 >= 8 * ScoreDrawn(k).den
            /\ check.status = CheckStatus.PASSED => check.issues = << >>
            /\ check.status = CheckStatus.FAILED => Len(check.issues) <= 2

\* The checks of one regulation whose first field scores exactly 0.8 and is
\* passed without issues, beside the checks of a regulation whose fields
\* score 0.79 and are failed with two issues each.
C24_Witness ==
    /\ ~ IsNone(returned)
    /\ Len(args.regulations) = 2
    /\ returned[1][1].dq_score = Float(80, 100)
    /\ returned[1][1].status = CheckStatus.PASSED
    /\ returned[1][1].issues = << >>
    /\ \A k \in 9..16 :
           /\ returned[1][k].dq_score = Float(79, 100)
           /\ returned[1][k].status = CheckStatus.FAILED
           /\ Len(returned[1][k].issues) = 2

\* ------------------------------------------------------------------- C25
\* C25: a step whose status is completed, approved or rejected keeps that
\* status whatever request is served afterwards.
C25_TerminalStatusKept ==
    [][ \A w \in DOMAIN workflow_db : \A s \in StepNameSet :
          StepRec(workflow_db, w, s).status
              \in { WorkflowStatus.COMPLETED, WorkflowStatus.APPROVED,
                    WorkflowStatus.REJECTED }
          => StepRec(workflow_db', w, s).status = StepRec(workflow_db, w, s).status
      ]_vars

\* ------------------------------------------------------------------- C26
\* C26: a step that has both started_at and completed_at set has started_at
\* no later than completed_at.
C26_StartedBeforeCompleted ==
    \A w \in DOMAIN workflow_db : \A s \in StepNameSet :
        ( /\ ~ IsNone(StepRec(workflow_db, w, s).started_at)
          /\ ~ IsNone(StepRec(workflow_db, w, s).completed_at) )
        => StepRec(workflow_db, w, s).started_at[1]
               <= StepRec(workflow_db, w, s).completed_at[1]

\* ------------------------------------------------------------------- C27
\* C27: when a manual_review run whose reviewer decision is "approved"
\* returns, the status of the manual_review step is approved.
C27_ApprovedReview ==
    [][ \A w \in DOMAIN workflow_db :
          ( /\ Ran(w, "manual_review")
            /\ StepRec(workflow_db', w, "manual_review").details.review_decision
                   = "approved" )
          => StepRec(workflow_db', w, "manual_review").status
                 = WorkflowStatus.APPROVED ]_vars

\* ------------------------------------------------------------------- C28
\* C28: a manual_review request on a workflow whose document_validation step
\* is not in manual_review_required is refused and leaves the manual_review
\* step as it was (not started, no decision recorded).
C28_ReviewOnlyWhenRequired ==
    [][ \A w \in DOMAIN workflow_db :
          ( /\ Called(w, "manual_review")
            /\ StepRec(workflow_db, w, "document_validation").status
                   # WorkflowStatus.MANUAL_REVIEW_REQUIRED )
          => /\ Refused
             /\ StepRec(workflow_db', w, "manual_review")
                    = StepRec(workflow_db, w, "manual_review") ]_vars

\* ------------------------------------------------------------------- C29
\* C29: the classification built and stored has its completion timestamp set
\* exactly when its overall status is passed or failed; with the status
\* manual_review it has none.
C29_CompletedExactlyWhenTerminal ==
    /\ ~ IsNone(returned)
       => /\ ~ IsNone(returned[1].completed_at)
             <=> returned[1].status \in { CheckStatus.PASSED, CheckStatus.FAILED }
          /\ returned[1].status = CheckStatus.MANUAL_REVIEW
             => IsNone(returned[1].completed_at)
    /\ \A id \in DOMAIN regulatory_db :
          ~ IsNone(regulatory_db[id].completed_at)
          <=> regulatory_db[id].status \in { CheckStatus.PASSED, CheckStatus.FAILED }

\* A classification with a document check sent to manual review and no
\* failed check has been stored: its status is manual_review and it has no
\* completion timestamp.
C29_Witness ==
    /\ ~ IsNone(returned)
    /\ returned[1].status = CheckStatus.MANUAL_REVIEW
    /\ IsNone(returned[1].completed_at)
    /\ regulatory_db[returned[1].classification_id] = returned[1]
    /\ Len(returned[1].document_checks) >= 1

\* ------------------------------------------------------------------- C30
\* C30: a workflow's overall status is not_started or rejected in every
\* state; it changes only from not_started to rejected, in a manual_review
\* run whose decision is "rejected"; once rejected it stays rejected whatever
\* request is served; it is never completed, not even with all five steps
\* completed.
C30_OverallStatusOnlyRejects ==
    [][ \A w \in DOMAIN workflow_db' :
          /\ workflow_db'[w].overall_status
                 \in { WorkflowStatus.NOT_STARTED, WorkflowStatus.REJECTED }
          /\ w \in DOMAIN workflow_db
             => /\ workflow_db[w].overall_status = WorkflowStatus.REJECTED
                   => workflow_db'[w].overall_status = WorkflowStatus.REJECTED
                /\ workflow_db'[w].overall_status # workflow_db[w].overall_status
                   => /\ workflow_db[w].overall_status = WorkflowStatus.NOT_STARTED
                      /\ workflow_db'[w].overall_status = WorkflowStatus.REJECTED
                      /\ Ran(w, "manual_review")
                      /\ StepRec(workflow_db', w, "manual_review").details.review_decision
                             = "rejected" ]_vars

\* All five steps of a workflow are completed, the last of them by the
\* request just served, and its overall status is still not_started.
C30_Witness ==
    \E w \in DOMAIN workflow_db :
        /\ \A s \in StepNameSet :
               StepRec(workflow_db, w, s).status = WorkflowStatus.COMPLETED
        /\ last.op = "process_step"
        /\ last.workflow_id = w
        /\ last.code = 200
        /\ workflow_db[w].overall_status = WorkflowStatus.NOT_STARTED

\* ------------------------------------------------------------------- C31
\* C31: a step whose status is completed carries no error message.
C31_CompletedStepHasNoError ==
    \A w \in DOMAIN workflow_db : \A s \in StepNameSet :
        StepRec(workflow_db, w, s).status = WorkflowStatus.COMPLETED
        => IsNone(StepRec(workflow_db, w, s).error_message)

\* ------------------------------------------------------------------- C32
\* C32: a regulation_classification request that follows a successful
\* regulation_classification request on the same workflow (so the profile is
\* the one the first run read) is answered with success, leaves the list of
\* applicable regulations as the first run left it and the profile as it
\* was, and ends the step completed again.
C32_ReclassificationIdempotent ==
    [][ \A w \in DOMAIN workflow_db :
          ( /\ JustCalled(w, "regulation_classification")
            /\ last.code = 200
            /\ Ran(w, "regulation_classification") )
          => /\ last'.code = 200
             /\ workflow_db'[w].client_data = workflow_db[w].client_data
             /\ workflow_db'[w].applicable_regulations
                    = workflow_db[w].applicable_regulations
             /\ StepRec(workflow_db', w, "regulation_classification").status
                    = WorkflowStatus.COMPLETED
             /\ StepRec(workflow_db', w, "regulation_classification")
                    .details.applicable_regulations
                    = workflow_db[w].applicable_regulations ]_vars

\* regulation_classification has just completed for the second time in a
\* row on a workflow with at least one applicable regulation: the store
\* holds this workflow alone, its other steps but client_import have never
\* run, and the step was started later than client_import completed, so the
\* tick in between was a first run of the step.
C32_Witness ==
    \E w \in DOMAIN workflow_db :
        /\ DOMAIN workflow_db = { w }
        /\ JustCalled(w, "regulation_classification")
        /\ last.code = 200
        /\ Len(workflow_db[w].applicable_regulations) >= 1
        /\ StepRec(workflow_db, w, "regulation_classification").status
               = WorkflowStatus.COMPLETED
        /\ \A s \in { "document_validation", "manual_review", "client_communication" } :
               StepRec(workflow_db, w, s).status = WorkflowStatus.NOT_STARTED
        /\ StepRec(workflow_db, w, "client_import").status = WorkflowStatus.COMPLETED
        /\ StepRec(workflow_db, w, "client_import").completed_at[1]
               < StepRec(workflow_db, w, "regulation_classification").started_at[1]

====
